---- MODULE Spec2Model ----
(***************************************************************************)
(* Model of the FetchMetalPrice MCP tool (src/src/mcpserver/               *)
(* fetch_metal_price.py): the module globals, the two upstream fetches,    *)
(* calculate_prices and the fetch_metal_price tool body, run by several    *)
(* callers.                                                                *)
(*                                                                         *)
(* Python floats are modelled as exact rationals, so the arithmetic        *)
(* identities below are those of the real numbers; the code's doubles      *)
(* agree with them up to floating-point rounding.  A rational is kept as   *)
(* (n / d) * 2^a * 5^b * 62207^c (31.1035 = 62207 / 2000), which keeps     *)
(* every numerator within TLC's integers.  Python strings are sequences    *)
(* of one-character strings.                                               *)
(***************************************************************************)
EXTENDS Integers, Sequences, FiniteSets, TLC

VARIABLES
    METAL_CONFIG,            \* module global, line 8
    GST_RATE,                \* module global, line 13
    GRAMS_PER_OUNCE,         \* module global, line 14
    FALLBACK_EXCHANGE_RATE,  \* module global, line 15
    json_error,              \* the class response.json() raises in the installed requests
    pc,                      \* per caller: where its invocation stands
    frame,                   \* per caller: the locals of fetch_metal_price
    result,                  \* per caller: what the invocation ended with
    call,                    \* per caller: the argument passed, what the two sources answered, how often each was asked
    cpc,                     \* client: where run(query) stands
    messages,                \* client: the conversation, client.py line 71
    response,                \* client: the language model's latest reply, lines 76 and 104
    tool_execution,          \* client: index of the requested call the loop of line 87 is at
    requests,                \* client: the model requests made so far, each with its messages and its reply
    executed,                \* client: the calls made through session.call_tool so far, each with its result
    returned                 \* client: what run(query) returned

globals == <<METAL_CONFIG, GST_RATE, GRAMS_PER_OUNCE, FALLBACK_EXCHANGE_RATE>>
environment == <<METAL_CONFIG, GST_RATE, GRAMS_PER_OUNCE, FALLBACK_EXCHANGE_RATE, json_error>>
server == <<pc, frame, result, call>>
client == <<cpc, messages, response, tool_execution, requests, executed, returned>>
vars == <<METAL_CONFIG, GST_RATE, GRAMS_PER_OUNCE, FALLBACK_EXCHANGE_RATE, json_error,
          pc, frame, result, call,
          cpc, messages, response, tool_execution, requests, executed, returned>>

\* Number of callers that may be inside fetch_metal_price at once.
NumCallers == 2
Callers == 1..NumCallers

-----------------------------------------------------------------------------
(* Exact arithmetic standing for Python's float operators.  A float is   *)
(* [n, d, x]: the rational (n / d) * 2^x[1] * 5^x[2] * 62207^x[3], with    *)
(* n and d coprime and free of the three primes.                           *)

\* 31.1035 = 62207 / 2000, 2000 = 2^4 * 5^3, and 62207 is prime.
Primes == <<2, 5, 62207>>

Abs(i) == IF i < 0 THEN -i ELSE i
Min(i, j) == IF i < j THEN i ELSE j

RECURSIVE GCD(_, _)
GCD(a, b) == IF b = 0 THEN a ELSE GCD(b, a % b)

RECURSIVE Pow(_, _)
Pow(b, e) == IF e = 0 THEN 1 ELSE b * Pow(b, e - 1)

\* The float (n / d) * 2^x[1] * 5^x[2] * 62207^x[3] in normal form (d # 0).
RECURSIVE Q(_, _, _)
Q(n, d, x) ==
    IF n = 0 THEN [n |-> 0, d |-> 1, x |-> <<0, 0, 0>>]
    ELSE IF d < 0 THEN Q(-n, -d, x)
    ELSE IF \E i \in 1..3 : n % Primes[i] = 0
         THEN LET i == CHOOSE j \in 1..3 : n % Primes[j] = 0
              IN  Q(n \div Primes[i], d, [x EXCEPT ![i] = @ + 1])
    ELSE IF \E i \in 1..3 : d % Primes[i] = 0
         THEN LET i == CHOOSE j \in 1..3 : d % Primes[j] = 0
              IN  Q(n, d \div Primes[i], [x EXCEPT ![i] = @ - 1])
    ELSE LET g == GCD(Abs(n), d)
         IN  [n |-> n \div g, d |-> d \div g, x |-> x]

\* The float of the fraction n / d.
Float(n, d) == Q(n, d, <<0, 0, 0>>)

\* a * b
Mul(a, b) ==
    IF a.n = 0 \/ b.n = 0 THEN Float(0, 1)
    ELSE LET g1 == GCD(Abs(a.n), b.d)
             g2 == GCD(Abs(b.n), a.d)
         IN  Q((a.n \div g1) * (b.n \div g2), (a.d \div g2) * (b.d \div g1),
               [i \in 1..3 |-> a.x[i] + b.x[i]])

\* a / b, b nonzero
Div(a, b) ==
    Mul(a, Q(IF b.n < 0 THEN -b.d ELSE b.d, Abs(b.n), [i \in 1..3 |-> -b.x[i]]))

\* n * 2^x[1] * 5^x[2] * 62207^x[3], all x[i] >= 0
Expand(n, x) == n * Pow(Primes[1], x[1]) * Pow(Primes[2], x[2]) * Pow(Primes[3], x[3])

\* a + b
Add(a, b) ==
    IF a.n = 0 THEN b
    ELSE IF b.n = 0 THEN a
    ELSE LET m == [i \in 1..3 |-> Min(a.x[i], b.x[i])]
             an == Expand(a.n, [i \in 1..3 |-> a.x[i] - m[i]])
             bn == Expand(b.n, [i \in 1..3 |-> b.x[i] - m[i]])
             l  == (a.d \div GCD(a.d, b.d)) * b.d
         IN  Q(an * (l \div a.d) + bn * (l \div b.d), l, m)

\* (q + r / D) * f^times as quotient and remainder again
RECURSIVE ScaleQR(_, _, _, _)
ScaleQR(qr, D, f, times) ==
    IF times = 0 THEN qr
    ELSE ScaleQR([q |-> qr.q * f + ((qr.r * f) \div D), r |-> (qr.r * f) % D],
                 D, f, times - 1)

\* format(a, ".<digits>f"): the nearest multiple of 10^-digits, ties to even,
\* as the signed integer number of such units.
Fixed(a, digits) ==
    LET pos == [i \in 1..3 |-> IF a.x[i] > 0 THEN a.x[i] ELSE 0]
        neg == [i \in 1..3 |-> IF a.x[i] < 0 THEN -a.x[i] ELSE 0]
        D   == Expand(a.d, neg)
        q0  == [q |-> Abs(a.n) \div D, r |-> Abs(a.n) % D]
        q1  == ScaleQR(q0, D, Primes[1], pos[1])
        q2  == ScaleQR(q1, D, Primes[2], pos[2])
        q3  == ScaleQR(q2, D, Primes[3], pos[3])
        q4  == ScaleQR(q3, D, 10, digits)
        u   == IF 2 * q4.r > D THEN q4.q + 1
               ELSE IF 2 * q4.r = D THEN q4.q + (q4.q % 2)
               ELSE q4.q
    IN  IF a.n < 0 THEN -u ELSE u

-----------------------------------------------------------------------------
(* Python str: lower(), strip(), title().                                  *)

UpperCase == <<"A","B","C","D","E","F","G","H","I","J","K","L","M",
               "N","O","P","Q","R","S","T","U","V","W","X","Y","Z">>
LowerCase == <<"a","b","c","d","e","f","g","h","i","j","k","l","m",
               "n","o","p","q","r","s","t","u","v","w","x","y","z">>
Whitespace == {" ", "\t", "\n"}

IsUpper(c) == \E i \in DOMAIN UpperCase : UpperCase[i] = c
IsLower(c) == \E i \in DOMAIN LowerCase : LowerCase[i] = c
LowerChar(c) ==
    IF IsUpper(c) THEN LowerCase[CHOOSE i \in DOMAIN UpperCase : UpperCase[i] = c] ELSE c
UpperChar(c) ==
    IF IsLower(c) THEN UpperCase[CHOOSE i \in DOMAIN LowerCase : LowerCase[i] = c] ELSE c

\* A faulty s.lower(): the string is left as given.
AsGiven(s) == s

\* s.lower()
Lower(s) == [i \in DOMAIN s |-> LowerChar(s[i])]

RECURSIVE LStrip(_)
LStrip(s) == IF s # <<>> /\ Head(s) \in Whitespace THEN LStrip(Tail(s)) ELSE s

RECURSIVE RStrip(_)
RStrip(s) ==
    IF s # <<>> /\ s[Len(s)] \in Whitespace THEN RStrip(SubSeq(s, 1, Len(s) - 1)) ELSE s

\* s.strip()
Strip(s) == RStrip(LStrip(s))

\* s.title(): a letter that follows a non-letter is upper-cased, any other lower-cased
Title(s) ==
    [i \in DOMAIN s |->
        IF i = 1 \/ ~(IsUpper(s[i - 1]) \/ IsLower(s[i - 1]))
        THEN UpperChar(s[i]) ELSE LowerChar(s[i])]

-----------------------------------------------------------------------------
(* Python values that reach the arithmetic, and exceptions.                *)

Zero == Float(0, 1)

\* A value decoded from JSON or produced by dict.get: [t, v], v the number when t = "float".
Num(f)  == [t |-> "float", v |-> f]
None    == [t |-> "NoneType", v |-> Zero]
Str     == [t |-> "str", v |-> Zero]      \* some non-empty, non-numeric string
Absent  == [t |-> "absent", v |-> Zero]   \* the key is not in the object

\* bool(v)
Truthy(v) ==
    CASE v.t = "float" -> v.v.n # 0
      [] v.t = "str" -> TRUE
      [] OTHER -> FALSE

\* d.get(key, default) on a decoded JSON object
DictGet(d, key, default) == IF d[key].t = "absent" THEN default ELSE d[key]

\* The first element of the "items" list: a JSON object with the two price keys
\* (either may be absent), or a value that is no object.
Item(xau, xag) == [t |-> "dict", xauPrice |-> xau, xagPrice |-> xag]
NotADict == [t |-> "int", xauPrice |-> Absent, xagPrice |-> Absent]
NoData   == [t |-> "NoneType", xauPrice |-> Absent, xagPrice |-> Absent]

\* bool(metal_data): None and the empty dict are false
TruthyData(md) ==
    CASE md.t = "dict" -> md.xauPrice.t # "absent" \/ md.xagPrice.t # "absent"
      [] md.t = "int" -> TRUE
      [] OTHER -> FALSE

\* The classes an exception is an instance of.  requests raises its own JSONDecodeError,
\* a RequestException, from version 2.27 on; before that, json's, which is a ValueError only.
Bases(exc) ==
    CASE exc = "ConnectionError" -> {"ConnectionError", "RequestException", "Exception"}
      [] exc = "HTTPError" -> {"HTTPError", "RequestException", "Exception"}
      [] exc = "requests.JSONDecodeError" ->
            {"requests.JSONDecodeError", "RequestException", "ValueError", "Exception"}
      [] exc = "json.JSONDecodeError" -> {"json.JSONDecodeError", "ValueError", "Exception"}
      [] OTHER -> {exc, "Exception"}

JSONDecodeErrors == {"requests.JSONDecodeError", "json.JSONDecodeError"}

\* except (classes): does the clause catch exc?
Catches(classes, exc) == Bases(exc) \cap classes # {}

Return(v) == [raised |-> "none", value |-> v]
Raise(exc, filler) == [raised |-> exc, value |-> filler]

-----------------------------------------------------------------------------
(* The two upstream sources.  A response is what one HTTP request met.     *)

SpotResponse(status, body, items, first) ==
    [status |-> status, body |-> body, items |-> items, first |-> first]
RateResponse(status, body, rates, inr) ==
    [status |-> status, body |-> body, rates |-> rates, INR |-> inr]

NoSpotResponse == SpotResponse("unasked", "none", "absent", NoData)
NoRateResponse == RateResponse("unasked", "none", "absent", Absent)

\* except clause of get_usd_to_inr_rate, line 36
RateExcept == {"RequestException", "KeyError", "TypeError"}
\* except clause of fetch_metal_data, line 50
MetalExcept == {"RequestException", "KeyError", "IndexError", "TypeError"}

\* get_usd_to_inr_rate(), lines 26-37, meeting response resp.
get_usd_to_inr_rate(resp) ==
    LET body ==
            IF resp.status = "unreachable" THEN Raise("ConnectionError", None)
            ELSE IF resp.status = "http_error" THEN Raise("HTTPError", None)
            ELSE IF resp.body = "invalid" THEN Raise(json_error, None)
            ELSE IF resp.body = "array" THEN Raise("AttributeError", None)
            ELSE IF resp.rates = "absent" THEN Return(Num(FALLBACK_EXCHANGE_RATE))
            ELSE IF resp.rates = "null" THEN Raise("AttributeError", None)
            ELSE Return(DictGet(resp, "INR", Num(FALLBACK_EXCHANGE_RATE)))
    IN  IF body.raised # "none" /\ Catches(RateExcept, body.raised)
        THEN Return(Num(FALLBACK_EXCHANGE_RATE))
        ELSE body

\* A faulty fetch_metal_data: a failed request is answered with a quote kept from before.
fetch_metal_data_stale(resp) ==
    LET body ==
            IF resp.status = "unreachable" THEN Raise("ConnectionError", NoData)
            ELSE IF resp.status = "http_error" THEN Raise("HTTPError", NoData)
            ELSE IF resp.body = "invalid" THEN Raise(json_error, NoData)
            ELSE IF resp.body = "array" THEN Raise("AttributeError", NoData)
            ELSE IF resp.items \in {"absent", "null", "empty"} THEN Return(NoData)
            ELSE IF resp.items = "number" THEN Raise("TypeError", NoData)
            ELSE Return(resp.first)
    IN  IF body.raised # "none" /\ Catches(MetalExcept, body.raised)
        THEN Return(Item(Num(Float(2000, 1)), Num(Float(25, 1))))
        ELSE body

\* fetch_metal_data(headers), lines 39-51, meeting response resp.
fetch_metal_data(resp) ==
    LET body ==
            IF resp.status = "unreachable" THEN Raise("ConnectionError", NoData)
            ELSE IF resp.status = "http_error" THEN Raise("HTTPError", NoData)
            ELSE IF resp.body = "invalid" THEN Raise(json_error, NoData)
            ELSE IF resp.body = "array" THEN Raise("AttributeError", NoData)
            ELSE IF resp.items \in {"absent", "null", "empty"} THEN Return(NoData)
            ELSE IF resp.items = "number" THEN Raise("TypeError", NoData)
            ELSE Return(resp.first)
    IN  IF body.raised # "none" /\ Catches(MetalExcept, body.raised)
        THEN Return(NoData)
        ELSE body

-----------------------------------------------------------------------------
(* calculate_prices and the text fetch_metal_price returns.                *)

\* A faulty calculate_prices: the total compounds the two taxes.
calculate_prices_compounded(base_price, gst_rate, import_duty_rate) ==
    [with_gst         |-> Mul(base_price, Add(Float(1, 1), gst_rate)),
     with_import_duty |-> Mul(base_price, Add(Float(1, 1), import_duty_rate)),
     total            |-> Mul(Mul(base_price, Add(Float(1, 1), gst_rate)),
                              Add(Float(1, 1), import_duty_rate)),
     gst_amount       |-> Mul(base_price, gst_rate),
     duty_amount      |-> Mul(base_price, import_duty_rate)]

\* A faulty calculate_prices: the duty is levied on the GST-inclusive price.
calculate_prices_duty_on_gst(base_price, gst_rate, import_duty_rate) ==
    [with_gst         |-> Mul(base_price, Add(Float(1, 1), gst_rate)),
     with_import_duty |-> Add(base_price,
                              Mul(Mul(base_price, Add(Float(1, 1), gst_rate)),
                                  import_duty_rate)),
     total            |-> Mul(base_price, Add(Add(Float(1, 1), gst_rate), import_duty_rate)),
     gst_amount       |-> Mul(base_price, gst_rate),
     duty_amount      |-> Mul(Mul(base_price, Add(Float(1, 1), gst_rate)),
                              import_duty_rate)]

\* calculate_prices(base_price, gst_rate, import_duty_rate), lines 53-61
calculate_prices(base_price, gst_rate, import_duty_rate) ==
    [with_gst         |-> Mul(base_price, Add(Float(1, 1), gst_rate)),
     with_import_duty |-> Mul(base_price, Add(Float(1, 1), import_duty_rate)),
     total            |-> Mul(base_price, Add(Add(Float(1, 1), gst_rate), import_duty_rate)),
     gst_amount       |-> Mul(base_price, gst_rate),
     duty_amount      |-> Mul(base_price, import_duty_rate)]

NoPrices == calculate_prices(Zero, Zero, Zero)

\* The figures of one unit's block of the report, each printed with two decimals
\* (lines 127-131 and 133-137), as hundredths.
UnitLines(usd, inr, prices) ==
    [usd              |-> Fixed(usd, 2),
     inr_base         |-> Fixed(inr, 2),
     with_gst         |-> Fixed(prices.with_gst, 2),
     gst_amount       |-> Fixed(prices.gst_amount, 2),
     with_import_duty |-> Fixed(prices.with_import_duty, 2),
     duty_amount      |-> Fixed(prices.duty_amount, 2),
     total            |-> Fixed(prices.total, 2)]

NoLines == UnitLines(Zero, Zero, NoPrices)

\* The numbers printed in a report, lines 125-139.
Figures(conversion, ounce, gram, duty_pct, exchange_rate, total_tax_rate) ==
    [conversion |-> conversion, ounce |-> ounce, gram |-> gram, duty_pct |-> duty_pct,
     exchange_rate |-> exchange_rate, total_tax_rate |-> total_tax_rate]

NoFigures == Figures(0, NoLines, NoLines, 0, 0, 0)

\* What fetch_metal_price returns: the template of the text (kind), its first
\* character (mark) and the values interpolated into it.
Text(kind, mark, metal, valid_metals, exception, figures) ==
    [kind |-> kind, mark |-> mark, metal |-> metal, valid_metals |-> valid_metals,
     exception |-> exception, figures |-> figures]

ErrorText(kind, metal, valid_metals, exception) ==
    Text(kind, "cross_mark", metal, valid_metals, exception, NoFigures)

NoResult == Text("none", "", <<>>, <<>>, "", NoFigures)

\* lines 80-81
InvalidMetalText(metal, valid_metals) == ErrorText("invalid_metal", metal, valid_metals, "")
\* line 105
UnableToFetchText(metal) == ErrorText("unable_to_fetch", metal, <<>>, "")
\* line 109
PriceNotFoundText(metal) == ErrorText("price_not_found", Title(metal), <<>>, "")
\* line 143
ErrorFetchingText(metal, exc) == ErrorText("error_fetching", metal, <<>>, exc)

\* lines 123-140
ReportText(f) ==
    Text("report", f.metal_symbol, Title(f.metal), <<>>, "",
         Figures(Fixed(GRAMS_PER_OUNCE, 4),
                 UnitLines(f.current_price_usd.v, f.current_price_inr, f.ounce_prices),
                 UnitLines(f.price_per_10g_usd, f.price_per_10g_inr, f.gram_prices),
                 Fixed(Mul(f.import_duty_rate, Float(100, 1)), 1),
                 Fixed(f.exchange_rate.v, 2),
                 Fixed(f.total_tax_rate, 1)))

\* A faulty except clause: only the exceptions the two fetches already handle.
ToolExceptNarrow == {"RequestException", "KeyError", "IndexError", "TypeError"}

\* except clause of fetch_metal_price, line 142
ToolExcept == {"Exception"}

\* How an invocation ends when exc is raised inside the try block of lines 75-143:
\* the handler's text, or the exception leaving the tool.
OnException(metal, exc) ==
    IF Catches(ToolExcept, exc)
    THEN ErrorFetchingText(metal, exc)
    ELSE Text("escaped", "", metal, <<>>, exc, NoFigures)

-----------------------------------------------------------------------------
(* Module globals, lines 8-15.                                             *)

Gold   == <<"g", "o", "l", "d">>
Silver == <<"s", "i", "l", "v", "e", "r">>

METAL_CONFIG_0 ==
    << [key |-> Gold, symbol |-> "gold_medal", price_key |-> "xauPrice",
        import_duty |-> Float(6, 100)],
       [key |-> Silver, symbol |-> "silver_medal", price_key |-> "xagPrice",
        import_duty |-> Float(75, 1000)] >>
GST_RATE_0 == Float(3, 100)
GRAMS_PER_OUNCE_0 == Float(311035, 10000)
FALLBACK_EXCHANGE_RATE_0 == Float(83, 1)

\* A faulty key listing: the last key is left out.
KeysButLast(config) == [i \in 1..(Len(config) - 1) |-> config[i].key]

\* METAL_CONFIG.keys(), in insertion order
Keys(config) == [i \in DOMAIN config |-> config[i].key]
\* metal in METAL_CONFIG
InConfig(config, metal) == \E i \in DOMAIN config : config[i].key = metal
\* METAL_CONFIG[metal]
Lookup(config, metal) == config[CHOOSE i \in DOMAIN config : config[i].key = metal]

-----------------------------------------------------------------------------
(* fetch_metal_price(metal), lines 64-143, as run by caller p.             *)

\* The locals of one invocation before line 77 has run.
NoFrame ==
    [metal |-> <<>>, metal_symbol |-> "", price_key |-> "", import_duty_rate |-> Zero,
     metal_data |-> NoData, exchange_rate |-> None, current_price_usd |-> None,
     current_price_inr |-> Zero, price_per_10g_usd |-> Zero, price_per_10g_inr |-> Zero,
     ounce_prices |-> NoPrices, gram_prices |-> NoPrices, total_tax_rate |-> Zero]

NoCall ==
    [arg |-> <<>>, spot |-> NoSpotResponse, rate |-> NoRateResponse,
     spot_requests |-> 0, rate_requests |-> 0]

\* A faulty version of lines 111-121: the 10-gram rupee price is derived from the
\* 10-gram dollar price as printed, rounded to cents.
PricesFromRoundedUsd(f) ==
    LET inr     == Mul(f.current_price_usd.v, f.exchange_rate.v)
        usd_10g == Mul(Div(f.current_price_usd.v, GRAMS_PER_OUNCE), Float(10, 1))
        inr_10g == Mul(Float(Fixed(usd_10g, 2), 100), f.exchange_rate.v)
    IN  [f EXCEPT !.current_price_inr = inr,
                  !.price_per_10g_usd = usd_10g,
                  !.price_per_10g_inr = inr_10g,
                  !.ounce_prices = calculate_prices(inr, GST_RATE, f.import_duty_rate),
                  !.gram_prices = calculate_prices(inr_10g, GST_RATE, f.import_duty_rate),
                  !.total_tax_rate =
                      Mul(Add(GST_RATE, f.import_duty_rate), Float(100, 1))]

\* Lines 111-121 on frame f, whose current_price_usd and exchange_rate are numbers.
Prices(f) ==
    LET inr     == Mul(f.current_price_usd.v, f.exchange_rate.v)
        usd_10g == Mul(Div(f.current_price_usd.v, GRAMS_PER_OUNCE), Float(10, 1))
        inr_10g == Mul(Div(inr, GRAMS_PER_OUNCE), Float(10, 1))
    IN  [f EXCEPT !.current_price_inr = inr,
                  !.price_per_10g_usd = usd_10g,
                  !.price_per_10g_inr = inr_10g,
                  !.ounce_prices = calculate_prices(inr, GST_RATE, f.import_duty_rate),
                  !.gram_prices = calculate_prices(inr_10g, GST_RATE, f.import_duty_rate),
                  !.total_tax_rate =
                      Mul(Add(GST_RATE, f.import_duty_rate), Float(100, 1))]

\* Lines 104-140 on frame f: the frame they leave and the text returned.
Body(f) ==
    IF ~TruthyData(f.metal_data)
    THEN [frame |-> f, result |-> UnableToFetchText(f.metal)]
    ELSE IF f.metal_data.t # "dict"
    THEN [frame |-> f, result |-> OnException(f.metal, "AttributeError")]
    ELSE LET g == [f EXCEPT !.current_price_usd =
                                DictGet(f.metal_data, f.price_key, None)]
         IN  IF ~Truthy(g.current_price_usd)
             THEN [frame |-> g, result |-> PriceNotFoundText(g.metal)]
             ELSE IF g.current_price_usd.t # "float" \/ g.exchange_rate.t # "float"
             THEN [frame |-> g, result |-> OnException(g.metal, "TypeError")]
             ELSE LET h == Prices(g)
                  IN  [frame |-> h, result |-> ReportText(h)]

\* Lines 77-87: the selector is normalised and looked up.
Validate(p, selectors) ==
    /\ pc[p] = "idle"
    /\ \E arg \in selectors :
         LET metal == Strip(Lower(arg))
         IN  /\ call' = [call EXCEPT ![p] = [NoCall EXCEPT !.arg = arg]]
             /\ IF ~InConfig(METAL_CONFIG, metal)
                THEN /\ frame' = [frame EXCEPT ![p] = [NoFrame EXCEPT !.metal = metal]]
                     /\ result' = [result EXCEPT ![p] =
                                      InvalidMetalText(metal, Keys(METAL_CONFIG))]
                     /\ pc' = [pc EXCEPT ![p] = "done"]
                ELSE LET config == Lookup(METAL_CONFIG, metal)
                     IN  /\ frame' = [frame EXCEPT ![p] =
                                         [NoFrame EXCEPT !.metal = metal,
                                                         !.metal_symbol = config.symbol,
                                                         !.price_key = config.price_key,
                                                         !.import_duty_rate = config.import_duty]]
                         /\ result' = result
                         /\ pc' = [pc EXCEPT ![p] = "fetch_metal_data"]
    /\ UNCHANGED <<environment, client>>

\* A faulty version of line 101: a request that brought no data is made once more.
FetchMetalDataRetrying(p, responses) ==
    /\ pc[p] = "fetch_metal_data"
    /\ \E resp \in responses :
         LET got == fetch_metal_data(resp)
         IN  /\ call' = [call EXCEPT ![p].spot = resp, ![p].spot_requests = @ + 1]
             /\ IF call[p].spot_requests = 0 /\ ~TruthyData(got.value)
                THEN UNCHANGED <<pc, frame, result>>
                ELSE IF got.raised # "none"
                THEN /\ result' = [result EXCEPT ![p] =
                                      OnException(frame[p].metal, got.raised)]
                     /\ pc' = [pc EXCEPT ![p] = "done"]
                     /\ frame' = frame
                ELSE /\ frame' = [frame EXCEPT ![p].metal_data = got.value]
                     /\ pc' = [pc EXCEPT ![p] = "get_usd_to_inr_rate"]
                     /\ result' = result
    /\ UNCHANGED <<environment, client>>

\* Line 101: the spot-price source is asked.
FetchMetalData(p, responses) ==
    /\ pc[p] = "fetch_metal_data"
    /\ \E resp \in responses :
         LET got == fetch_metal_data(resp)
         IN  /\ call' = [call EXCEPT ![p].spot = resp, ![p].spot_requests = @ + 1]
             /\ IF got.raised # "none"
                THEN /\ result' = [result EXCEPT ![p] =
                                      OnException(frame[p].metal, got.raised)]
                     /\ pc' = [pc EXCEPT ![p] = "done"]
                     /\ frame' = frame
                ELSE /\ frame' = [frame EXCEPT ![p].metal_data = got.value]
                     /\ pc' = [pc EXCEPT ![p] = "get_usd_to_inr_rate"]
                     /\ result' = result
    /\ UNCHANGED <<environment, client>>

\* A faulty version of line 102: a live rate is kept as the fallback for later calls.
GetUsdToInrRateRemembering(p, responses) ==
    /\ pc[p] = "get_usd_to_inr_rate"
    /\ \E resp \in responses :
         LET got == get_usd_to_inr_rate(resp)
         IN  /\ call' = [call EXCEPT ![p].rate = resp, ![p].rate_requests = @ + 1]
             /\ IF got.raised # "none"
                THEN /\ result' = [result EXCEPT ![p] =
                                      OnException(frame[p].metal, got.raised)]
                     /\ pc' = [pc EXCEPT ![p] = "done"]
                     /\ frame' = frame
                     /\ FALLBACK_EXCHANGE_RATE' = FALLBACK_EXCHANGE_RATE
                ELSE /\ frame' = [frame EXCEPT ![p].exchange_rate = got.value]
                     /\ pc' = [pc EXCEPT ![p] = "compute"]
                     /\ result' = result
                     /\ FALLBACK_EXCHANGE_RATE' =
                            IF got.value.t = "float" THEN got.value.v
                            ELSE FALLBACK_EXCHANGE_RATE
    /\ UNCHANGED <<METAL_CONFIG, GST_RATE, GRAMS_PER_OUNCE, json_error, client>>

\* Line 102: the exchange-rate source is asked.
GetUsdToInrRate(p, responses) ==
    /\ pc[p] = "get_usd_to_inr_rate"
    /\ \E resp \in responses :
         LET got == get_usd_to_inr_rate(resp)
         IN  /\ call' = [call EXCEPT ![p].rate = resp, ![p].rate_requests = @ + 1]
             /\ IF got.raised # "none"
                THEN /\ result' = [result EXCEPT ![p] =
                                      OnException(frame[p].metal, got.raised)]
                     /\ pc' = [pc EXCEPT ![p] = "done"]
                     /\ frame' = frame
                ELSE /\ frame' = [frame EXCEPT ![p].exchange_rate = got.value]
                     /\ pc' = [pc EXCEPT ![p] = "compute"]
                     /\ result' = result
    /\ UNCHANGED <<environment, client>>

\* A faulty version of lines 104-140: the metal's duty is added into GST_RATE.
ComputeAccumulating(p) ==
    /\ pc[p] = "compute"
    /\ frame' = [frame EXCEPT ![p] = Body(frame[p]).frame]
    /\ result' = [result EXCEPT ![p] = Body(frame[p]).result]
    /\ pc' = [pc EXCEPT ![p] = "done"]
    /\ GST_RATE' = Add(GST_RATE, frame[p].import_duty_rate)
    /\ UNCHANGED <<METAL_CONFIG, GRAMS_PER_OUNCE, FALLBACK_EXCHANGE_RATE, json_error, call, client>>

\* Lines 104-140: the checks, the arithmetic and the report.
Compute(p) ==
    /\ pc[p] = "compute"
    /\ frame' = [frame EXCEPT ![p] = Body(frame[p]).frame]
    /\ result' = [result EXCEPT ![p] = Body(frame[p]).result]
    /\ pc' = [pc EXCEPT ![p] = "done"]
    /\ UNCHANGED <<environment, call, client>>

\* The caller has taken the returned text; it may invoke the tool again.
Finish(p) ==
    /\ pc[p] = "done"
    /\ pc' = [pc EXCEPT ![p] = "idle"]
    /\ frame' = [frame EXCEPT ![p] = NoFrame]
    /\ result' = [result EXCEPT ![p] = NoResult]
    /\ call' = [call EXCEPT ![p] = NoCall]
    /\ UNCHANGED <<environment, client>>

\* Lines 75-143 run without a break: the text fetch_metal_price(arg) returns when
\* the spot source answers spot and the exchange-rate source answers rate.
Outcome(arg, spot, rate) ==
    LET metal == Strip(Lower(arg))
    IN  IF ~InConfig(METAL_CONFIG, metal)
        THEN InvalidMetalText(metal, Keys(METAL_CONFIG))
        ELSE LET config == Lookup(METAL_CONFIG, metal)
                 data   == fetch_metal_data(spot)
                 live   == get_usd_to_inr_rate(rate)
             IN  IF data.raised # "none" THEN OnException(metal, data.raised)
                 ELSE IF live.raised # "none" THEN OnException(metal, live.raised)
                 ELSE Body([NoFrame EXCEPT !.metal = metal,
                                           !.metal_symbol = config.symbol,
                                           !.price_key = config.price_key,
                                           !.import_duty_rate = config.import_duty,
                                           !.metal_data = data.value,
                                           !.exchange_rate = live.value]).result

-----------------------------------------------------------------------------
(* The client's exchange with the language model for one query: run(query), *)
(* client.py lines 70-116 (run_openai_query of client_ui.py, lines 164-202, *)
(* is the same exchange).                                                  *)

\* A text of the tool as the conversation carries it, told from the tool's other
\* texts by its template, metal, exception and the two totals it prints.
TextId(text) ==
    [kind |-> text.kind, metal |-> text.metal, exception |-> text.exception,
     ounce_total |-> text.figures.ounce.total, gram_total |-> text.figures.gram.total]
NoText == [kind |-> "none", metal |-> <<>>, exception |-> "", ounce_total |-> 0, gram_total |-> 0]

\* A message's content: None, words of the user or the model, or a tool's text.
Content(t, words, text) == [t |-> t, words |-> words, text |-> text]
NoContent == Content("NoneType", "", NoText)
Said(words) == Content("str", words, NoText)
\* result.content[0].text, line 99
ToolText(text) == Content("str", "", text)

\* function.arguments of a requested call: JSON text, here an object that may
\* hold "metal", or text that is no JSON.
ArgumentsText(json, has_metal, metal) == [json |-> json, has_metal |-> has_metal, metal |-> metal]
NoArguments == ArgumentsText("object", FALSE, <<>>)

\* A requested call: tool_execution.id, .function.name, .function.arguments
ToolCall(id, name, arguments) == [id |-> id, name |-> name, arguments |-> arguments]

\* response.choices[0].message
Reply(content, tool_calls) == [content |-> content, tool_calls |-> tool_calls]
NoReply == Reply(NoContent, <<>>)

\* An entry of messages.
Message(role, content, tool_calls, tool_call_id) ==
    [role |-> role, content |-> content, tool_calls |-> tool_calls,
     tool_call_id |-> tool_call_id]

\* json.loads(tool_execution.function.arguments), line 91
Loads(arguments) ==
    IF arguments.json = "invalid"
    THEN Raise("json.JSONDecodeError", NoArguments)
    ELSE Return(arguments)

\* The text the server's tool returns for the decoded arguments, metal
\* defaulting to "gold" (fetch_metal_price.py line 64), when the two sources
\* answer spot and rate.
ToolResult(arguments, spot, rate) ==
    TextId(Outcome(IF arguments.has_metal THEN arguments.metal ELSE Gold, spot, rate))

\* The texts the call may bring back, over what the two sources may answer.
ToolResults(arguments, spots, rates) ==
    { ToolResult(arguments, spot, rate) : spot \in spots, rate \in rates }

\* One model request, as made: the messages passed, whether it raised, the reply.
Request(msgs, raised, reply) == [messages |-> msgs, raised |-> raised, reply |-> reply]
\* One session.call_tool, as made: name, arguments, whether it raised, the text.
Execution(name, arguments, raised, text) ==
    [name |-> name, arguments |-> arguments, raised |-> raised, result |-> text]

\* Lines 113-116: an exception raised inside run ends it; None is returned.
Failed ==
    /\ cpc' = "failed"
    /\ returned' = NoContent
    /\ UNCHANGED <<messages, response, tool_execution>>

\* Lines 71-86: the model is asked with the query; its message joins the
\* conversation, and line 86 looks at the calls it requests.
FirstRequest(replies) ==
    /\ cpc = "ask"
    /\ \/ \E reply \in replies :
            /\ requests' = Append(requests, Request(messages, FALSE, reply))
            /\ response' = reply
            /\ messages' = Append(messages,
                                  Message("assistant", reply.content, reply.tool_calls, ""))
            /\ tool_execution' = 1
            /\ cpc' = IF reply.tool_calls # <<>> THEN "call_tool" ELSE "return"
            /\ UNCHANGED <<executed, returned>>
       \/ /\ requests' = Append(requests, Request(messages, TRUE, NoReply))
          /\ Failed
          /\ UNCHANGED executed
    /\ UNCHANGED <<environment, server>>

\* A faulty version of lines 87-101: every tool message carries the id of the
\* first requested call.
CallToolFirstId(spots, rates) ==
    /\ cpc = "call_tool"
    /\ IF Loads(response.tool_calls[tool_execution].arguments).raised # "none"
       THEN Failed /\ UNCHANGED <<requests, executed>>
       ELSE \/ \E text \in ToolResults(Loads(response.tool_calls[tool_execution].arguments).value,
                                       spots, rates) :
                 /\ executed' =
                        Append(executed,
                               Execution(response.tool_calls[tool_execution].name,
                                         Loads(response.tool_calls[tool_execution].arguments).value,
                                         FALSE, text))
                 /\ messages' =
                        Append(messages,
                               Message("tool", ToolText(text), <<>>,
                                       response.tool_calls[1].id))
                 /\ tool_execution' = tool_execution + 1
                 /\ cpc' = IF tool_execution = Len(response.tool_calls)
                           THEN "follow_up" ELSE "call_tool"
                 /\ UNCHANGED <<response, requests, returned>>
            \/ /\ executed' =
                      Append(executed,
                             Execution(response.tool_calls[tool_execution].name,
                                       Loads(response.tool_calls[tool_execution].arguments).value,
                                       TRUE, NoText))
               /\ Failed
               /\ UNCHANGED requests
    /\ UNCHANGED <<environment, server>>

\* Lines 87-101, one pass of the loop: the arguments are decoded, the call is
\* made through the session, and its text joins the conversation as a tool
\* message; after the last requested call the loop is left.
CallTool(spots, rates) ==
    /\ cpc = "call_tool"
    /\ IF Loads(response.tool_calls[tool_execution].arguments).raised # "none"
       THEN Failed /\ UNCHANGED <<requests, executed>>
       ELSE \/ \E text \in ToolResults(Loads(response.tool_calls[tool_execution].arguments).value,
                                       spots, rates) :
                 /\ executed' =
                        Append(executed,
                               Execution(response.tool_calls[tool_execution].name,
                                         Loads(response.tool_calls[tool_execution].arguments).value,
                                         FALSE, text))
                 /\ messages' =
                        Append(messages,
                               Message("tool", ToolText(text), <<>>,
                                       response.tool_calls[tool_execution].id))
                 /\ tool_execution' = tool_execution + 1
                 /\ cpc' = IF tool_execution = Len(response.tool_calls)
                           THEN "follow_up" ELSE "call_tool"
                 /\ UNCHANGED <<response, requests, returned>>
            \/ /\ executed' =
                      Append(executed,
                             Execution(response.tool_calls[tool_execution].name,
                                       Loads(response.tool_calls[tool_execution].arguments).value,
                                       TRUE, NoText))
               /\ Failed
               /\ UNCHANGED requests
    /\ UNCHANGED <<environment, server>>

\* Lines 104-109: the model is asked again, with the tool messages.
FollowUp(replies) ==
    /\ cpc = "follow_up"
    /\ \/ \E reply \in replies :
            /\ requests' = Append(requests, Request(messages, FALSE, reply))
            /\ response' = reply
            /\ cpc' = "return"
            /\ UNCHANGED <<messages, tool_execution, executed, returned>>
       \/ /\ requests' = Append(requests, Request(messages, TRUE, NoReply))
          /\ Failed
          /\ UNCHANGED executed
    /\ UNCHANGED <<environment, server>>

\* Line 111: the content of the latest reply is returned.
ReturnContent ==
    /\ cpc = "return"
    /\ returned' = response.content
    /\ cpc' = "returned"
    /\ UNCHANGED <<messages, response, tool_execution, requests, executed>>
    /\ UNCHANGED <<environment, server>>

-----------------------------------------------------------------------------
(* Inputs.                                                                 *)

Selectors ==
    { Gold, Silver,
      <<" ", "G", "o", "l", "d">>,
      <<"S", "I", "L", "V", "E", "R", "\n">>,
      <<"g", "o", " ", "l", "d">>,
      <<"p", "l", "a", "t", "i", "n", "u", "m">> }

Items ==
    { Item(Num(Float(2000, 1)), Num(Float(25, 1))),
      Item(Num(Zero), Num(Float(-5, 1))),
      Item(Absent, None),
      Item(Str, Num(Float(2431, 100))),
      Item(Absent, Absent),
      NotADict }

SpotResponses ==
    { SpotResponse("unreachable", "none", "absent", NoData),
      SpotResponse("http_error", "none", "absent", NoData),
      SpotResponse("ok", "invalid", "absent", NoData),
      SpotResponse("ok", "array", "absent", NoData),
      SpotResponse("ok", "object", "absent", NoData),
      SpotResponse("ok", "object", "null", NoData),
      SpotResponse("ok", "object", "empty", NoData),
      SpotResponse("ok", "object", "number", NoData) }
    \cup { SpotResponse("ok", "object", "list", item) : item \in Items }

RateResponses ==
    { RateResponse("unreachable", "none", "absent", Absent),
      RateResponse("http_error", "none", "absent", Absent),
      RateResponse("ok", "invalid", "absent", Absent),
      RateResponse("ok", "array", "absent", Absent),
      RateResponse("ok", "object", "absent", Absent),
      RateResponse("ok", "object", "null", Absent) }
    \cup { RateResponse("ok", "object", "object", inr) :
             inr \in { Absent, None, Str, Num(Float(167, 2)), Num(Float(83, 1)),
                       Num(Zero), Num(Float(-1, 1)) } }

\* The inputs of the runs in which callers overlap.
FewSelectors == { Gold, <<" ", "S", "i", "l", "V", "E", "R", "\n">>,
                  <<"g", "o", " ", "l", "d">>,
                  <<"p", "l", "a", "t", "i", "n", "u", "m">> }
FewSpotResponses ==
    { SpotResponse("unreachable", "none", "absent", NoData),
      SpotResponse("ok", "array", "absent", NoData),
      SpotResponse("ok", "object", "list", Item(Num(Float(2000, 1)), Num(Float(25, 1)))) }
FewRateResponses ==
    { RateResponse("unreachable", "none", "absent", Absent),
      RateResponse("ok", "object", "object", None),
      RateResponse("ok", "object", "object", Num(Float(167, 2))) }

\* The most calls one reply of the model requests.
MaxToolCalls == 2

CallIds == {"call_a", "call_b", "call_c"}

ArgumentTexts ==
    { ArgumentsText("object", TRUE, Silver),
      ArgumentsText("object", FALSE, <<>>),
      ArgumentsText("invalid", FALSE, <<>>) }

\* The lists of calls a reply may request: up to MaxToolCalls of them, their ids distinct.
ToolCallLists ==
    UNION { { tcs \in [1..n -> { ToolCall(id, "fetch_metal_price", a) :
                                   id \in CallIds, a \in ArgumentTexts }] :
                \A i, j \in 1..n : i # j => tcs[i].id # tcs[j].id } : n \in 0..MaxToolCalls }

\* What the model may reply to the query.
FirstReplies ==
    { Reply(c, tcs) : c \in {NoContent, Said("first")}, tcs \in ToolCallLists }

\* What the model may reply once it has the tool messages; it may ask for a call again.
FollowUpReplies ==
    { Reply(c, tcs) : c \in {NoContent, Said("final")},
                      tcs \in { <<>>, <<ToolCall("call_c", "fetch_metal_price",
                                                 ArgumentsText("object", TRUE, Gold))>> } }


-----------------------------------------------------------------------------
(* Specifications.                                                         *)

Init ==
    /\ METAL_CONFIG = METAL_CONFIG_0
    /\ GST_RATE = GST_RATE_0
    /\ GRAMS_PER_OUNCE = GRAMS_PER_OUNCE_0
    /\ FALLBACK_EXCHANGE_RATE = FALLBACK_EXCHANGE_RATE_0
    /\ json_error \in JSONDecodeErrors
    /\ pc = [p \in Callers |-> "idle"]
    /\ frame = [p \in Callers |-> NoFrame]
    /\ result = [p \in Callers |-> NoResult]
    /\ call = [p \in Callers |-> NoCall]
    /\ cpc = "ask"
    /\ messages = <<Message("user", Said("query"), <<>>, "")>>
    /\ response = NoReply
    /\ tool_execution = 1
    /\ requests = <<>>
    /\ executed = <<>>
    /\ returned = NoContent

\* One caller, invoking the tool again and again, against every upstream answer.
Next ==
    \/ Validate(1, Selectors)
    \/ FetchMetalData(1, SpotResponses)
    \/ GetUsdToInrRate(1, RateResponses)
    \/ Compute(1)
    \/ Finish(1)

Spec == Init /\ [][Next]_vars

\* The overlapping runs are made with a current requests library; none of their
\* upstream answers has a body that is not JSON.
ConcInit == Init /\ json_error = "requests.JSONDecodeError"

\* Every caller, their invocations overlapping step by step.
ConcNext ==
    \E p \in Callers :
        \/ Validate(p, FewSelectors)
        \/ FetchMetalData(p, FewSpotResponses)
        \/ GetUsdToInrRate(p, FewRateResponses)
        \/ Compute(p)
        \/ Finish(p)

ConcSpec == ConcInit /\ [][ConcNext]_vars

\* One query put to the client; the server's tool answers each call in one step.
ClientNext ==
    \/ FirstRequest(FirstReplies)
    \/ CallTool(FewSpotResponses, FewRateResponses)
    \/ FollowUp(FollowUpReplies)
    \/ ReturnContent

ClientSpec == ConcInit /\ [][ClientNext]_vars

-----------------------------------------------------------------------------
(* Properties.                                                             *)

Done(p) == pc[p] = "done"
Reported(p) == Done(p) /\ result[p].kind = "report"

\* The selector of p's invocation names a defined metal.
KnownMetal(p) == Strip(Lower(call[p].arg)) \in {Gold, Silver}

\* The price the spot source quoted p for the metal it asked about.
QuotedPrice(p) ==
    IF call[p].spot.items = "list" /\ call[p].spot.first.t = "dict" /\ KnownMetal(p)
    THEN call[p].spot.first[IF Strip(Lower(call[p].arg)) = Gold THEN "xauPrice" ELSE "xagPrice"]
    ELSE Absent

Positive(v) == v.t = "float" /\ v.v.n > 0

\* p's invocation got a positive spot price and a positive exchange rate.
PositiveInputs(p) ==
    /\ Done(p)
    /\ Positive(QuotedPrice(p))
    /\ Positive(frame[p].exchange_rate)

\* The duty rate the metal table gives, as a number of its own.
DutyOf(metal) == IF metal = Gold THEN Float(6, 100) ELSE Float(75, 1000)
\* 1 + 0.03 + duty rate
TaxFactor(metal) == IF metal = Gold THEN Float(109, 100) ELSE Float(1105, 1000)

\* C1: with a positive spot price and a positive exchange rate, for gold and for
\* silver, a report is produced whose per-ounce base is spot * rate and whose
\* per-ounce total is base * (1 + 0.03 + duty rate); gold at 2000 and 83 gives
\* base 166000, GST 4980, duty 9960, total 180940.
C1_TotalWithTax ==
    \A p \in Callers :
        PositiveInputs(p) =>
            LET f    == frame[p]
                spot == QuotedPrice(p).v
                rate == f.exchange_rate.v
                base == Mul(spot, rate)
            IN  /\ result[p].kind = "report"
                /\ f.current_price_inr = base
                /\ f.ounce_prices.total = Mul(base, TaxFactor(f.metal))
                /\ (f.metal = Gold /\ spot = Float(2000, 1) /\ rate = Float(83, 1)) =>
                       /\ base = Float(166000, 1)
                       /\ f.ounce_prices.gst_amount = Float(4980, 1)
                       /\ f.ounce_prices.duty_amount = Float(9960, 1)
                       /\ f.ounce_prices.total = Float(180940, 1)
                       /\ result[p].figures.ounce.total = 18094000

\* A gold report at spot 2000 and rate 83 with total 180940.
C1_Witness ==
    /\ \E p \in Callers :
         /\ PositiveInputs(p)
         /\ frame[p].metal = Gold
         /\ QuotedPrice(p) = Num(Float(2000, 1))
         /\ frame[p].exchange_rate = Num(Float(83, 1))
         /\ frame[p].ounce_prices.total = Float(180940, 1)

\* C3: a selector that is no defined metal ends the invocation at once with the
\* invalid-metal error, which carries the normalised selector and the labels
\* "gold", "silver" in that order; no report is produced.
C3_UnknownMetal ==
    \A p \in Callers :
        (pc[p] # "idle" /\ ~KnownMetal(p)) =>
            /\ Done(p)
            /\ result[p] = InvalidMetalText(Strip(Lower(call[p].arg)), <<Gold, Silver>>)
            /\ result[p].kind = "invalid_metal"
            /\ result[p].mark = "cross_mark"
            /\ result[p].figures = NoFigures

\* "platinum" has been refused.
C3_Witness ==
    \E p \in Callers :
        /\ Done(p)
        /\ call[p].arg = <<"p", "l", "a", "t", "i", "n", "u", "m">>
        /\ result[p].kind = "invalid_metal"
        /\ result[p].valid_metals = <<Gold, Silver>>

\* 10 / 31.1035
PerTenGrams == Float(100000, 311035)

\* C4: in every report each per-10-gram figure is the per-ounce figure times
\* 10 / 31.1035, exactly (nothing is rounded or taxed twice in between).
C4_UnitScaling ==
    \A p \in Callers :
        Reported(p) =>
            LET f == frame[p]
            IN  /\ f.price_per_10g_usd = Mul(f.current_price_usd.v, PerTenGrams)
                /\ f.price_per_10g_inr = Mul(f.current_price_inr, PerTenGrams)
                /\ \A k \in {"with_gst", "with_import_duty", "total", "gst_amount",
                             "duty_amount"} :
                       f.gram_prices[k] = Mul(f.ounce_prices[k], PerTenGrams)

\* A report whose per-10-gram total is a nonzero multiple of 1 / 62207.
C4_Witness ==
    \E p \in Callers :
        /\ Reported(p)
        /\ PositiveInputs(p)
        /\ frame[p].gram_prices.total = Mul(Float(180940, 1), PerTenGrams)
        /\ result[p].figures.gram.total = 5817352

TextKinds == {"report", "invalid_metal", "unable_to_fetch", "price_not_found",
              "error_fetching"}

\* C6: whatever the selector and whatever the two sources answer, an invocation
\* that has ended has returned a text, a report or an error message; no
\* exception leaves fetch_metal_price.
C6_NothingEscapes ==
    \A p \in Callers :
        /\ result[p].kind # "escaped"
        /\ Done(p) => result[p].kind \in TextKinds
        /\ ~Done(p) => result[p] = NoResult

\* An exception neither fetch handles has reached the tool's own handler.
C6_Witness ==
    \E p \in Callers :
        /\ Done(p)
        /\ result[p].kind = "error_fetching"
        /\ result[p].exception = "AttributeError"

\* C10: in every breakdown, per ounce and per 10 grams, GST amount = base * 0.03
\* and duty amount = base * duty rate, both on the same base; price with GST =
\* base + GST amount, price with duty = base + duty amount, and total = base +
\* GST amount + duty amount.
C10_Additive ==
    \A p \in Callers :
        Reported(p) =>
            LET f == frame[p]
                Holds(base, prices) ==
                    /\ prices.gst_amount = Mul(base, Float(3, 100))
                    /\ prices.duty_amount = Mul(base, DutyOf(f.metal))
                    /\ prices.with_gst = Add(base, prices.gst_amount)
                    /\ prices.with_import_duty = Add(base, prices.duty_amount)
                    /\ prices.total = Add(Add(base, prices.gst_amount), prices.duty_amount)
            IN  /\ Holds(f.current_price_inr, f.ounce_prices)
                /\ Holds(f.price_per_10g_inr, f.gram_prices)

\* A silver report, where the two tax rates differ most.
C10_Witness ==
    \E p \in Callers :
        /\ Reported(p)
        /\ frame[p].metal = Silver
        /\ frame[p].ounce_prices.gst_amount # Zero
        /\ frame[p].ounce_prices.duty_amount # frame[p].ounce_prices.gst_amount

\* C2 (as claimed): a spot price or exchange rate that reaches the computation
\* zero, negative or missing makes the invocation fail with an error, and no
\* report carries a zero or negative price.
C2_RejectsNonPositive ==
    \A p \in Callers :
        /\ ( /\ Done(p)
             /\ KnownMetal(p)
             /\ call[p].spot.first.t = "dict" /\ call[p].spot.items = "list"
             /\ call[p].rate_requests = 1
             /\ (~Positive(QuotedPrice(p)) \/ ~Positive(frame[p].exchange_rate)) )
           => result[p].mark = "cross_mark"
        /\ Reported(p) =>
               \A u \in {"ounce", "gram"} :
                   \A k \in DOMAIN NoLines : result[p].figures[u][k] > 0

\* The exchange-rate source gave no usable rate.
RateUnavailable(r) ==
    \/ r.status \in {"unreachable", "http_error"}
    \/ r.status = "ok" /\ r.body \in {"invalid", "array"}
    \/ r.status = "ok" /\ r.body = "object" /\ r.rates \in {"absent", "null"}
    \/ r.status = "ok" /\ r.body = "object" /\ r.rates = "object"
          /\ r.INR.t \in {"absent", "NoneType", "str"}

\* C5 (as claimed): whenever the exchange-rate source gives no usable rate and
\* the spot price is good, the invocation still ends in a report, computed
\* with the fallback rate 83.0.
C5_FallbackRate ==
    \A p \in Callers :
        (Done(p) /\ Positive(QuotedPrice(p)) /\ call[p].rate_requests = 1
            /\ RateUnavailable(call[p].rate)) =>
            /\ result[p].kind = "report"
            /\ frame[p].exchange_rate = Num(Float(83, 1))
            /\ frame[p].current_price_inr = Mul(QuotedPrice(p).v, Float(83, 1))
            /\ result[p].figures.exchange_rate = 8300

\* The spot source gave no data.
SpotUnavailable(s) ==
    \/ s.status \in {"unreachable", "http_error"}
    \/ s.status = "ok" /\ s.body \in {"invalid", "array"}
    \/ s.status = "ok" /\ s.body = "object" /\ s.items # "list"
    \/ s.status = "ok" /\ s.body = "object" /\ s.items = "list" /\ ~TruthyData(s.first)
    \/ s.status = "ok" /\ s.body = "object" /\ s.items = "list" /\ s.first.t # "dict"

\* Why fetch_metal_price(arg) must fail on these answers, if it must: the
\* metal is unknown, the spot source gave no data, or a number that reached
\* the computation is not a positive number.
FailureOf(arg, spot, rate) ==
    LET metal == Strip(Lower(arg))
        live  == get_usd_to_inr_rate(rate)
    IN  IF metal \notin {Gold, Silver} THEN "unknown_metal"
        ELSE IF SpotUnavailable(spot) THEN "upstream_unavailable"
        ELSE IF live.raised # "none" THEN "none"
        ELSE IF ~Positive(spot.first[IF metal = Gold THEN "xauPrice" ELSE "xagPrice"])
                \/ ~Positive(live.value)
             THEN "bad_input"
        ELSE "none"

\* C7 (as claimed): every failure ends in a text marked as an error, and no
\* text is returned for failures of two different kinds.
C7_MarkedAndDistinct ==
    \A p \in Callers :
        (Done(p) /\ (call[p].rate_requests = 1 \/ result[p].kind = "invalid_metal")) =>
            LET why == FailureOf(call[p].arg, call[p].spot, call[p].rate)
            IN  why # "none" =>
                    /\ result[p].mark = "cross_mark"
                    /\ \A a \in Selectors, s \in SpotResponses, r \in RateResponses :
                           FailureOf(a, s, r) \notin {"none", why}
                               => Outcome(a, s, r) # result[p]

\* p's invocation had a spot price and an exchange rate to compute with.
Quoted(p) ==
    /\ Done(p)
    /\ frame[p].current_price_usd.t = "float"
    /\ frame[p].exchange_rate.t = "float"

SameInputs(p, q) ==
    /\ Quoted(p) /\ Quoted(q)
    /\ frame[p].metal = frame[q].metal
    /\ frame[p].current_price_usd = frame[q].current_price_usd
    /\ frame[p].exchange_rate = frame[q].exchange_rate

\* C8: two invocations with the same metal, spot price and exchange rate end
\* with the same breakdowns and the same text, whatever other invocations ran
\* before, between or during them.
C8_Deterministic ==
    \A p, q \in Callers :
        SameInputs(p, q) =>
            /\ result[p] = result[q]
            /\ frame[p].ounce_prices = frame[q].ounce_prices
            /\ frame[p].gram_prices = frame[q].gram_prices

\* Two callers hold reports computed from the same inputs.
C8_Witness ==
    \E p, q \in Callers :
        /\ p # q
        /\ SameInputs(p, q)
        /\ Reported(p) /\ Reported(q)

\* C9: no step of any invocation writes a module global, and under every
\* interleaving an invocation returns the text it returns when run without a
\* break on the same selector and the same upstream answers.
C9_Isolated ==
    /\ METAL_CONFIG = METAL_CONFIG_0
    /\ GST_RATE = GST_RATE_0
    /\ GRAMS_PER_OUNCE = GRAMS_PER_OUNCE_0
    /\ FALLBACK_EXCHANGE_RATE = FALLBACK_EXCHANGE_RATE_0
    /\ \A p \in Callers :
           Done(p) => result[p] = Outcome(call[p].arg, call[p].spot, call[p].rate)

\* One caller holds a report computed with the fallback rate while another,
\* which got a live rate, is between its fetches and its arithmetic.
C9_Witness ==
    \E p, q \in Callers :
        /\ p # q
        /\ Reported(p)
        /\ call[p].rate.status = "unreachable"
        /\ pc[q] = "compute"
        /\ frame[q].exchange_rate = Num(Float(167, 2))

\* The spot source gave p no price to compute with: it could not be reached,
\* answered with an error status or a malformed body, listed no item, or the
\* item holds no nonzero number for the metal p asked about.
SpotFailed(p) ==
    /\ call[p].spot_requests = 1
    /\ KnownMetal(p)
    /\ \/ SpotUnavailable(call[p].spot)
       \/ ~(QuotedPrice(p).t = "float" /\ QuotedPrice(p).v.n # 0)

\* The locals that lines 111-121 assign are as they were on entry.
NothingComputed(f) ==
    /\ f.current_price_inr = NoFrame.current_price_inr
    /\ f.price_per_10g_usd = NoFrame.price_per_10g_usd
    /\ f.price_per_10g_inr = NoFrame.price_per_10g_inr
    /\ f.ounce_prices = NoFrame.ounce_prices
    /\ f.gram_prices = NoFrame.gram_prices
    /\ f.total_tax_rate = NoFrame.total_tax_rate

\* C11: once the spot-price fetch has failed (transport error, HTTP error
\* status, malformed response, empty item list, no price for the metal), the
\* invocation computes no price and prints no report, whatever the exchange-rate
\* source answers; it ends in an error text about the missing data, and in the
\* "unable to fetch" text when the request itself failed and the exchange-rate
\* fetch returned.
C11_SpotFailureStopsShort ==
    \A p \in Callers :
        SpotFailed(p) =>
            /\ NothingComputed(frame[p])
            /\ result[p].kind # "report"
            /\ result[p].figures = NoFigures
            /\ Done(p) =>
                   /\ result[p].mark = "cross_mark"
                   /\ result[p].kind \in {"unable_to_fetch", "price_not_found", "error_fetching"}
            /\ ( /\ Done(p)
                 /\ call[p].spot.status \in {"unreachable", "http_error"}
                 /\ call[p].rate_requests = 1
                 /\ get_usd_to_inr_rate(call[p].rate).raised = "none" )
                   => result[p] = UnableToFetchText(frame[p].metal)

\* The spot source was unreachable while the exchange-rate source gave a live
\* rate; the invocation ended with the "unable to fetch" text.
C11_Witness ==
    \E p \in Callers :
        /\ Done(p)
        /\ SpotFailed(p)
        /\ call[p].spot.status = "unreachable"
        /\ frame[p].exchange_rate = Num(Float(167, 2))
        /\ result[p].kind = "unable_to_fetch"

\* C12: nothing is retried.  In one invocation each source is asked at most
\* once whatever it answers: neither is asked before the selector is accepted,
\* the spot source exactly once before the exchange-rate source is, the latter
\* exactly once before the checks of line 104 run, and an invocation that has
\* ended asked the exchange-rate source only if it asked the spot source.
C12_AtMostOnce ==
    \A p \in Callers :
        /\ call[p].spot_requests \in {0, 1}
        /\ call[p].rate_requests \in {0, 1}
        /\ call[p].rate_requests <= call[p].spot_requests
        /\ pc[p] \in {"idle", "fetch_metal_data"} => call[p].spot_requests = 0
        /\ pc[p] = "get_usd_to_inr_rate" =>
               call[p].spot_requests = 1 /\ call[p].rate_requests = 0
        /\ pc[p] = "compute" =>
               call[p].spot_requests = 1 /\ call[p].rate_requests = 1
        /\ call[p].spot_requests = 0 => call[p].spot = NoSpotResponse
        /\ call[p].rate_requests = 0 => call[p].rate = NoRateResponse

\* An invocation has ended after both requests failed, each made once.
C12_Witness ==
    \E p \in Callers :
        /\ Done(p)
        /\ call[p].spot.status = "http_error"
        /\ call[p].rate.status = "unreachable"
        /\ call[p].spot_requests = 1
        /\ call[p].rate_requests = 1

\* arg is the label m up to the case of its letters and whitespace around it.
SameButCaseAndPadding(arg, m) ==
    \E i \in 1..(Len(arg) + 1) :
        /\ i + Len(m) - 1 <= Len(arg)
        /\ \A k \in 1..(i - 1) : arg[k] \in Whitespace
        /\ \A k \in 1..Len(m) : arg[i + k - 1] = m[k] \/ arg[i + k - 1] = UpperChar(m[k])
        /\ \A k \in (i + Len(m))..Len(arg) : arg[k] \in Whitespace

\* C14: the selector is checked before either source is asked.  An invocation
\* whose selector is no defined metal, letter case and surrounding whitespace
\* aside, has ended with the invalid-metal error and asked neither source; a
\* selector that is "gold" or "silver" up to letter case and surrounding
\* whitespace is taken as that metal, with its price key and duty rate, and
\* is never refused.
C14_ValidatedFirst ==
    \A p \in Callers :
        pc[p] # "idle" =>
            /\ (\A m \in {Gold, Silver} : ~SameButCaseAndPadding(call[p].arg, m)) =>
                   /\ Done(p)
                   /\ result[p].kind = "invalid_metal"
                   /\ call[p].spot_requests = 0 /\ call[p].rate_requests = 0
                   /\ call[p].spot = NoSpotResponse /\ call[p].rate = NoRateResponse
            /\ \A m \in {Gold, Silver} :
                   SameButCaseAndPadding(call[p].arg, m) =>
                       /\ frame[p].metal = m
                       /\ frame[p].price_key = (IF m = Gold THEN "xauPrice" ELSE "xagPrice")
                       /\ frame[p].import_duty_rate = DutyOf(m)
                       /\ result[p].kind # "invalid_metal"
                       /\ Reported(p) => result[p].metal = Title(m)
            /\ (call[p].spot_requests > 0 \/ call[p].rate_requests > 0) =>
                   frame[p].metal \in {Gold, Silver}

\* One caller was refused "go ld" without a request being made, while another,
\* who wrote " SilVER" and a line feed, holds a report on silver.
C14_Witness ==
    \E p, q \in Callers :
        /\ Done(p)
        /\ call[p].arg = <<"g", "o", " ", "l", "d">>
        /\ result[p].kind = "invalid_metal"
        /\ call[p].spot_requests = 0 /\ call[p].rate_requests = 0
        /\ Reported(q)
        /\ call[q].arg = <<" ", "S", "i", "l", "V", "E", "R", "\n">>
        /\ frame[q].metal = Silver
        /\ call[q].spot_requests = 1 /\ call[q].rate_requests = 1

\* C13: in the exchange for one query the model is asked first, with the query
\* alone.  The calls made through the session are the calls its reply
\* requests, in the order given, and each tool message carries the id of the
\* call it answers and that call's text.  A second model request is made only
\* after all requested calls, with all their tool messages, and never a third.
\* An exchange that returns from line 111 has, if calls were requested, made
\* every one of them and exactly one follow-up request, whose content it
\* returns (calls that the follow-up requests are not made); if none was
\* requested, it has made no call and no second request and returns the first
\* reply's content.  An exchange a raising step has ended returns None.
C13_ToolExchange ==
    /\ executed # <<>> => requests # <<>>
    /\ requests # <<>> =>
           requests[1].messages = <<Message("user", Said("query"), <<>>, "")>>
    /\ Len(requests) <= 2
    /\ cpc \in {"call_tool", "follow_up", "return", "returned"} => Len(messages) >= 2
    /\ cpc = "failed" => returned = NoContent
    /\ Len(messages) >= 2 =>
           LET first == requests[1].reply
               tc    == first.tool_calls
           IN  /\ messages[2] = Message("assistant", first.content, tc, "")
               /\ Len(executed) <= Len(tc)
               /\ \A k \in 1..Len(executed) :
                      /\ executed[k].name = tc[k].name
                      /\ executed[k].arguments = tc[k].arguments
               /\ Len(messages) - 2 <= Len(executed)
               /\ \A k \in 3..Len(messages) :
                      /\ ~executed[k - 2].raised
                      /\ messages[k] = Message("tool", ToolText(executed[k - 2].result),
                                               <<>>, tc[k - 2].id)
               /\ Len(requests) = 2 =>
                      /\ tc # <<>>
                      /\ Len(executed) = Len(tc)
                      /\ Len(messages) = 2 + Len(tc)
                      /\ requests[2].messages = messages
               /\ cpc = "returned" =>
                      IF tc = <<>>
                      THEN /\ executed = <<>>
                           /\ Len(requests) = 1
                           /\ Len(messages) = 2
                           /\ returned = first.content
                      ELSE /\ Len(executed) = Len(tc)
                           /\ Len(messages) = 2 + Len(tc)
                           /\ Len(requests) = 2
                           /\ ~requests[2].raised
                           /\ returned = requests[2].reply.content

\* The reply requested two calls, "call_b" before "call_a"; both were made in
\* that order, the first giving a report, and the follow-up's words were
\* returned although the follow-up asked for a further call.
C13_Witness ==
    /\ cpc = "returned"
    /\ Len(requests) = 2
    /\ Len(executed) = 2
    /\ Len(messages) = 4
    /\ messages[2].tool_calls[1].id = "call_b"
    /\ messages[2].tool_calls[2].id = "call_a"
    /\ messages[3].tool_call_id = "call_b"
    /\ messages[3].content.text.kind = "report"
    /\ messages[4].tool_call_id = "call_a"
    /\ response.tool_calls # <<>>
    /\ returned = Said("final")

====
